---- MODULE Spec2Model ----
(***************************************************************************)
(* A model of apache_beam/io/avroio.py: the sync-marker scanner            *)
(* (_AvroUtils.advance_file_past_next_sync_marker), the splittable reader  *)
(* (_FastAvroSource.read_records), the sink (_FastAvroSink) and the        *)
(* Avro <-> Beam schema and value converters.                              *)
(*                                                                         *)
(* Bytes are small naturals.  Sizes are scaled down: the read buffer of    *)
(* the scanner (10000 bytes in the source) is buf_size bytes, the 16-byte  *)
(* sync marker of a container file is the 2-byte SyncMarker, and a record  *)
(* is encoded in one byte.                                                 *)
(***************************************************************************)
EXTENDS Integers, Sequences, FiniteSets, TLC

----------------------------------------------------------------------------
(* Bounds of the model.                                                    *)

\* avroio.py:292 sets buf_size = 10000; scaled down, see the header.
buf_size == 3
\* longest stream given to the scanner on its own
MaxStreamLen == 6
\* blocks per container file, records per block, cut points per partition
MaxBlocks == 2
MaxRecs == 1
MaxCuts == 2
\* records written to one sink
MaxWrites == 5
\* bytes buffered by the writer before it emits a block (the writer's
\* sync_interval, 16000 bytes by default), scaled down
sync_interval == 2
\* width of an Avro int (32 bits in the source), scaled down; an Avro long
\* (64 bits) is twice as wide
IntBits == 3
\* nesting depth of the Avro schemas and of the Beam types converted
MaxDepth == 2
MaxBeamDepth == 2
\* members of the unions converted on their own
MaxUnion == 3

----------------------------------------------------------------------------
(* Byte strings and the stream f.                                          *)

Min(a, b) == IF a < b THEN a ELSE b
Max(a, b) == IF a > b THEN a ELSE b

\* all sequences over S of length lo..hi
SeqsOf(S, lo, hi) == UNION {[1..n -> S] : n \in lo..hi}

\* f.read(n) at position p: the bytes p .. p+n-1 that exist (0-based)
ReadAt(bytes, p, n) == SubSeq(bytes, p + 1, Min(p + n, Len(bytes)))

\* the 0-based offsets at which marker occurs in bytes
Occurrences(bytes, marker) ==
  {i \in 0..(Len(bytes) - Len(marker)) :
     SubSeq(bytes, i + 1, i + Len(marker)) = marker}

\* bytes.find(marker): lowest offset of an occurrence, -1 if there is none
Find(bytes, marker) ==
  IF Occurrences(bytes, marker) = {} THEN -1
  ELSE CHOOSE i \in Occurrences(bytes, marker) :
         \A j \in Occurrences(bytes, marker) : i <= j

----------------------------------------------------------------------------
(* The container file format (scaled): header, then blocks                 *)
(* [record count][payload size][payload][sync marker].                     *)

Magic == <<7>>
SyncMarker == <<8, 9>>
\* values a record byte can take; 8 is also the first byte of the marker
RecVals == {8}

Header == Magic \o SyncMarker

EncodeBlock(recs) == <<Len(recs), Len(recs)>> \o recs \o SyncMarker

RECURSIVE EncodeBlocks(_)
EncodeBlocks(bs) ==
  IF bs = <<>> THEN <<>> ELSE EncodeBlock(Head(bs)) \o EncodeBlocks(Tail(bs))

EncodeFile(bs) == Header \o EncodeBlocks(bs)

\* the sync marker occurs at the end of the header and of each block only
RECURSIVE BlockEnds(_, _)
BlockEnds(bs, at) ==
  IF bs = <<>> THEN {}
  ELSE LET e == at + Len(EncodeBlock(Head(bs)))
       IN  {e} \cup BlockEnds(Tail(bs), e)

WellFormed(bs) ==
  Occurrences(EncodeFile(bs), SyncMarker) =
    {e - Len(SyncMarker) : e \in {Len(Header)} \cup BlockEnds(bs, Len(Header))}

Files ==
  {bs \in SeqsOf(SeqsOf(RecVals, 0, MaxRecs), 0, MaxBlocks) : WellFormed(bs)}

\* strictly increasing cut points inside (0, size)
CutSeqs(size) ==
  UNION {{c \in [1..k -> 1..(size - 1)] : \A i \in 1..(k - 1) : c[i] < c[i + 1]}
           : k \in 0..MaxCuts}

\* the end of the last range: the size of the file, or past the end of
\* the file by more than the length of the marker
Totals(size) == {size, size + Len(SyncMarker) + 1}

\* the adjacent half-open ranges [b[i], b[i+1]) that cover [0, size)
RangesOf(c, size) ==
  LET b == <<0>> \o c \o <<size>>
  IN  [i \in 1..(Len(b) - 1) |-> [start |-> b[i], stop |-> b[i + 1]]]

----------------------------------------------------------------------------
VARIABLES
  file,             \* the bytes of the stream f
  f_pos,            \* f.tell()
  sync_marker,      \* the marker searched for
  data,             \* the chunk last read by the scanner
  chunk_start,      \* position at which data was read
  scan_start,       \* position at which the scanner was called
  scan_result,      \* "pending", "True", "None"
  reads,            \* parity of the number of f.read calls of the scanner
  pc,               \* control point
  written,          \* the blocks the file was built from
  ranges,           \* the partition being read
  ri,               \* index of the range being read
  start_offset,
  next_block_start,
  block,            \* the block last returned by next(blocks)
  rec_i,            \* records of block already yielded
  outs,             \* per range: the records yielded
  claims,           \* per range: the positions proposed and the answers
  decoded,          \* per range: offsets of the blocks that next(blocks)
                    \* returned, -1 where it raised
  sink,             \* the _FastAvroSink, its writer and its output stream
  conv,             \* a schema or value conversion and its results
  unclaimed         \* the last call of split_points_unclaimed: its argument
                    \* and what it returned

vars == <<file, f_pos, sync_marker, data, chunk_start, scan_start,
          scan_result, reads, pc, written, ranges, ri, start_offset,
          next_block_start, block, rec_i, outs, claims, decoded, sink,
          conv, unclaimed>>

\* the variables the body of read_records and the scanner do not touch
restVars == <<sink, conv, unclaimed>>

scanVars == <<f_pos, data, chunk_start, scan_start, scan_result, reads>>
readVars == <<written, ranges, ri, start_offset, next_block_start, block,
              rec_i, outs, claims, decoded, unclaimed>>

NoBlock == [offset |-> -1, size |-> 0, recs |-> <<>>]

\* a sink that was not opened: file_handle is None (line 516)
NoSink == [file_handle |-> "None", buffer |-> <<>>, stream |-> <<>>,
           records |-> <<>>]

\* no conversion under way
NoConv == [stage |-> "none"]

\* the callback was not called yet
NoCall == [called |-> FALSE]

----------------------------------------------------------------------------
(* _AvroUtils.advance_file_past_next_sync_marker                           *)

\* a seek back to the start of the occurrence instead of its end
FoundBacktrackToMarkerStart(chunk, pos, marker) == Len(chunk) - pos

\* line 300: backtrack = len(data) - pos - len(sync_marker)
FoundBacktrack(chunk, pos, marker) == Len(chunk) - pos - Len(marker)

\* no backtracking between two chunk reads
RetryPosNoBacktrack(pos, marker) == pos

\* lines 304-309: the position the next chunk is read from
RetryPos(pos, marker) ==
  IF pos >= Len(marker) THEN pos - (Len(marker) - 1) ELSE pos

\* line 294: data = f.read(buf_size)
ScanBegin ==
  /\ pc = "scan"
  /\ data' = ReadAt(file, f_pos, buf_size)
  /\ f_pos' = f_pos + Len(data')
  /\ chunk_start' = f_pos
  /\ scan_start' = f_pos
  /\ scan_result' = "pending"
  /\ reads' = 1 - reads
  /\ pc' = "scan_loop"
  /\ UNCHANGED <<file, sync_marker>>
  /\ UNCHANGED readVars
  /\ UNCHANGED restVars

\* lines 295-302: the marker is in the chunk
ScanFound ==
  /\ pc = "scan_loop"
  /\ data # <<>>
  /\ Find(data, sync_marker) >= 0
  /\ f_pos' = f_pos - FoundBacktrack(data, Find(data, sync_marker), sync_marker)
  /\ scan_result' = "True"
  /\ pc' = "scan_done"
  /\ UNCHANGED <<file, sync_marker, data, chunk_start, scan_start, reads>>
  /\ UNCHANGED readVars
  /\ UNCHANGED restVars

\* lines 303-310: the marker is not in the chunk; read the next chunk
ScanNotFound ==
  /\ pc = "scan_loop"
  /\ data # <<>>
  /\ Find(data, sync_marker) < 0
  /\ LET p == RetryPos(f_pos, sync_marker)
     IN  /\ data' = ReadAt(file, p, buf_size)
         /\ f_pos' = p + Len(data')
         /\ chunk_start' = p
  /\ reads' = 1 - reads
  /\ UNCHANGED <<file, sync_marker, scan_start, scan_result, pc>>
  /\ UNCHANGED readVars
  /\ UNCHANGED restVars

\* line 295: an empty read ends the loop; the function returns None
ScanExhausted ==
  /\ pc = "scan_loop"
  /\ data = <<>>
  /\ scan_result' = "None"
  /\ pc' = "scan_done"
  /\ UNCHANGED <<file, sync_marker, f_pos, data, chunk_start, scan_start,
                 reads>>
  /\ UNCHANGED readVars
  /\ UNCHANGED restVars

NextScan == ScanBegin \/ ScanFound \/ ScanNotFound \/ ScanExhausted

\* the scanner on its own: any stream, any marker, any starting position
ScanBytes == {8, 9}

InitScan ==
  /\ file \in SeqsOf(ScanBytes, 0, MaxStreamLen)
  /\ sync_marker \in SeqsOf(ScanBytes, 1, buf_size + 1)
  /\ f_pos \in 0..Len(file)
  /\ data = <<>>
  /\ chunk_start = 0
  /\ scan_start = 0
  /\ scan_result = "pending"
  /\ reads = 0
  /\ pc = "scan"
  /\ written = <<>>
  /\ ranges = <<>>
  /\ ri = 0
  /\ start_offset = 0
  /\ next_block_start = -1
  /\ block = NoBlock
  /\ rec_i = 0
  /\ outs = <<>>
  /\ claims = <<>>
  /\ decoded = <<>>
  /\ sink = NoSink
  /\ conv = NoConv
  /\ unclaimed = NoCall

SpecScan == InitScan /\ [][NextScan]_vars

\* a call of the scanner keeps running until it returns
SpecScanFair == InitScan /\ [][NextScan]_vars /\ WF_vars(NextScan)

----------------------------------------------------------------------------
(* _FastAvroSource.read_records, one call per range of the partition       *)

\* range_tracker.try_claim(position) of an offset range tracker with a
\* fixed stop position: the claim is accepted iff position < stop
TryClaim(position, stop) == position < stop

\* the scan starts at the nominal start of the range
AdjustedStartNoBackup(start, marker) == Max(0, start)

\* line 349: start_offset = max(0, start_offset - len(sync_marker))
AdjustedStart(start, marker) == Max(0, start - Len(marker))

\* next(blocks) at stream position p: the block that starts there.
\* ok is FALSE at end of file (StopIteration) and on a block that cannot
\* be decoded (truncated, or not followed by the sync marker).
ParseBlock(bytes, p, marker) ==
  IF p + 2 > Len(bytes) THEN [ok |-> FALSE, blk |-> NoBlock]
  ELSE LET count == bytes[p + 1]
           psize == bytes[p + 2]
           size  == 2 + psize + Len(marker)
       IN  IF /\ p + size <= Len(bytes)
              /\ count = psize
              /\ SubSeq(bytes, p + 2 + psize + 1, p + size) = marker
           THEN [ok |-> TRUE,
                 blk |-> [offset |-> p, size |-> size,
                          recs |-> [i \in 1..count |->
                                      [off |-> p + 1 + i,
                                       val |-> bytes[p + 2 + i]]]]]
           ELSE [ok |-> FALSE, blk |-> NoBlock]

\* lines 326-345: the callback is installed, the file is opened and
\* block_reader reads the header, which holds the sync marker
Open ==
  /\ pc = "open"
  /\ next_block_start' = -1
  /\ start_offset' = ranges[ri].start
  /\ f_pos' = Len(Header)
  /\ sync_marker' = SubSeq(file, Len(Magic) + 1, Len(Header))
  /\ pc' = "seek"
  /\ UNCHANGED <<file, data, chunk_start, scan_start, scan_result, reads,
                 written, ranges, ri, block, rec_i, outs, claims, decoded>>
  /\ UNCHANGED restVars

\* lines 349-350: back up by the length of the marker and seek
SeekStart ==
  /\ pc = "seek"
  /\ start_offset' = AdjustedStart(start_offset, sync_marker)
  /\ f_pos' = start_offset'
  /\ pc' = "scan"
  /\ UNCHANGED <<file, sync_marker, data, chunk_start, scan_start,
                 scan_result, reads, written, ranges, ri, next_block_start,
                 block, rec_i, outs, claims, decoded>>
  /\ UNCHANGED restVars

\* the position the scan started from is taken for the block boundary
TellSeekPosition ==
  /\ pc = "scan_done"
  /\ ri > 0
  /\ next_block_start' = scan_start
  /\ pc' = "claim"
  /\ UNCHANGED <<file, sync_marker, scanVars, written, ranges, ri,
                 start_offset, block, rec_i, outs, claims, decoded>>
  /\ UNCHANGED restVars

\* line 353: next_block_start = f.tell()
Tell ==
  /\ pc = "scan_done"
  /\ ri > 0
  /\ next_block_start' = f_pos
  /\ pc' = "claim"
  /\ UNCHANGED <<file, sync_marker, scanVars, written, ranges, ri,
                 start_offset, block, rec_i, outs, claims, decoded>>
  /\ UNCHANGED restVars

\* the answer of the tracker is ignored
ClaimIgnoringAnswer ==
  /\ pc = "claim"
  /\ LET ok == TryClaim(next_block_start, ranges[ri].stop)
     IN  /\ claims' = [claims EXCEPT
                         ![ri] = Append(@, [pos |-> next_block_start,
                                            accepted |-> ok])]
         /\ pc' = "next"
  /\ UNCHANGED <<file, sync_marker, scanVars, written, ranges, ri,
                 start_offset, next_block_start, block, rec_i, outs,
                 decoded>>
  /\ UNCHANGED restVars

\* line 355: while range_tracker.try_claim(next_block_start)
Claim ==
  /\ pc = "claim"
  /\ LET ok == TryClaim(next_block_start, ranges[ri].stop)
     IN  /\ claims' = [claims EXCEPT
                         ![ri] = Append(@, [pos |-> next_block_start,
                                            accepted |-> ok])]
         /\ pc' = IF ok THEN "next" ELSE "done"
  /\ UNCHANGED <<file, sync_marker, scanVars, written, ranges, ri,
                 start_offset, next_block_start, block, rec_i, outs,
                 decoded>>
  /\ UNCHANGED restVars

\* lines 356-358: block = next(blocks);
\* next_block_start = block.offset + block.size
NextBlock ==
  /\ pc = "next"
  /\ LET r == ParseBlock(file, f_pos, sync_marker)
     IN  IF r.ok
         THEN /\ block' = r.blk
              /\ f_pos' = r.blk.offset + r.blk.size
              /\ next_block_start' = r.blk.offset + r.blk.size
              /\ decoded' = [decoded EXCEPT ![ri] = Append(@, r.blk.offset)]
              /\ rec_i' = 0
              /\ pc' = IF r.blk.recs = <<>> THEN "claim" ELSE "yield"
         ELSE /\ pc' = "error"
              /\ decoded' = [decoded EXCEPT ![ri] = Append(@, -1)]
              /\ UNCHANGED <<block, f_pos, next_block_start, rec_i>>
  /\ UNCHANGED <<file, sync_marker, data, chunk_start, scan_start,
                 scan_result, reads, written, ranges, ri, start_offset, outs,
                 claims>>
  /\ UNCHANGED restVars

\* lines 358-359: for record in block: yield record
Yield ==
  /\ pc = "yield"
  /\ rec_i' = rec_i + 1
  /\ outs' = [outs EXCEPT ![ri] = Append(@, block.recs[rec_i + 1])]
  /\ pc' = IF rec_i + 1 = Len(block.recs) THEN "claim" ELSE "yield"
  /\ UNCHANGED <<file, sync_marker, scanVars, written, ranges, ri,
                 start_offset, next_block_start, block, claims, decoded>>
  /\ UNCHANGED restVars

\* the generator of one range has ended; the next range is read by a
\* fresh call of read_records on a freshly opened file
NextRange ==
  /\ pc \in {"done", "error"}
  /\ ri < Len(ranges)
  /\ ri' = ri + 1
  /\ block' = NoBlock
  /\ rec_i' = 0
  /\ pc' = "open"
  /\ UNCHANGED <<file, sync_marker, scanVars, written, ranges, start_offset,
                 next_block_start, outs, claims, decoded>>
  /\ UNCHANGED restVars

Init ==
  /\ written \in Files
  /\ file = EncodeFile(written)
  /\ \E t \in Totals(Len(file)) :
       \E c \in CutSeqs(t) : ranges = RangesOf(c, t)
  /\ ri = 1
  /\ pc = "open"
  /\ f_pos = 0
  /\ sync_marker = <<>>
  /\ data = <<>>
  /\ chunk_start = 0
  /\ scan_start = 0
  /\ scan_result = "pending"
  /\ reads = 0
  /\ start_offset = 0
  /\ next_block_start = -1
  /\ block = NoBlock
  /\ rec_i = 0
  /\ outs = [i \in 1..Len(ranges) |-> <<>>]
  /\ claims = [i \in 1..Len(ranges) |-> <<>>]
  /\ decoded = [i \in 1..Len(ranges) |-> <<>>]
  /\ sink = NoSink
  /\ conv = NoConv
  /\ unclaimed = NoCall

Next ==
  \/ Open \/ SeekStart
  \/ ScanBegin \/ ScanFound \/ ScanNotFound \/ ScanExhausted
  \/ Tell \/ Claim \/ NextBlock \/ Yield \/ NextRange

Spec == Init /\ [][Next]_vars

----------------------------------------------------------------------------
(* split_points_unclaimed, the callback read_records hands to the tracker  *)

\* iobase.RangeTracker.SPLIT_POINTS_UNKNOWN, a sentinel object that is
\* not a count; counts are >= 0
SPLIT_POINTS_UNKNOWN == -1

\* zero is reported only for a boundary past the stop position
split_points_unclaimed_strict(stop_position) ==
  IF next_block_start > stop_position THEN 0 ELSE SPLIT_POINTS_UNKNOWN

\* lines 328-335; next_block_start is the local variable of the enclosing
\* read_records, read when the callback runs
split_points_unclaimed(stop_position) ==
  IF next_block_start >= stop_position THEN 0 ELSE SPLIT_POINTS_UNKNOWN

\* the stop positions the tracker asks about
StopPositions == (-1)..(Len(file) + 1)

\* the tracker calls the callback, at any point after line 337 installed
\* it: between any two steps of read_records and after the call has ended
SplitPointsUnclaimed ==
  /\ ri > 0
  /\ pc \in {"seek", "scan", "scan_loop", "scan_done", "claim", "next",
              "yield", "done", "error"}
  /\ \E stop_position \in StopPositions :
       unclaimed' = [called |-> TRUE,
                     stop_position |-> stop_position,
                     result |-> split_points_unclaimed(stop_position)]
  /\ UNCHANGED <<file, sync_marker, scanVars, pc, written, ranges, ri,
                 start_offset, next_block_start, block, rec_i, outs, claims,
                 decoded, sink, conv>>

\* one call of read_records, for a range that starts anywhere and stops at
\* the end of the file or past it
InitProgress ==
  /\ written \in Files
  /\ file = EncodeFile(written)
  /\ \E stop \in Totals(Len(file)) : \E start \in 0..(stop - 1) :
       ranges = <<[start |-> start, stop |-> stop]>>
  /\ ri = 1
  /\ pc = "open"
  /\ f_pos = 0
  /\ sync_marker = <<>>
  /\ data = <<>>
  /\ chunk_start = 0
  /\ scan_start = 0
  /\ scan_result = "pending"
  /\ reads = 0
  /\ start_offset = 0
  /\ next_block_start = -1
  /\ block = NoBlock
  /\ rec_i = 0
  /\ outs = <<<<>>>>
  /\ claims = <<<<>>>>
  /\ decoded = <<<<>>>>
  /\ sink = NoSink
  /\ conv = NoConv
  /\ unclaimed = NoCall

NextProgress ==
  \/ Open \/ SeekStart
  \/ ScanBegin \/ ScanFound \/ ScanNotFound \/ ScanExhausted
  \/ Tell \/ Claim \/ NextBlock \/ Yield
  \/ SplitPointsUnclaimed

SpecProgress == InitProgress /\ [][NextProgress]_vars

----------------------------------------------------------------------------
(* _FastAvroSink and the Writer it opens                                   *)

\* values of the records written (one byte each)
SinkVals == {5, 6}

\* Writer.dump: emit the buffered records as one block; writing to a
\* closed stream raises
Dump(sk) ==
  IF sk.file_handle = "open"
  THEN [sk EXCEPT !.stream = @ \o EncodeBlock(sk.buffer), !.buffer = <<>>]
  ELSE [sk EXCEPT !.file_handle = "error"]

\* Writer.write: buffer the record, dump once sync_interval is reached
WriterWrite(sk, value) ==
  LET b == [sk EXCEPT !.buffer = Append(@, value),
                      !.records = Append(@, value)]
  IN  IF Len(b.buffer) >= sync_interval THEN Dump(b) ELSE b

\* Writer.flush: dump what is buffered, then flush the stream
WriterFlush(sk) ==
  IF sk.file_handle # "open" THEN [sk EXCEPT !.file_handle = "error"]
  ELSE IF sk.buffer # <<>> THEN Dump(sk) ELSE sk

\* self.file_handle.close(), not reached when the flush raised
HandleClose(sk) ==
  IF sk.file_handle = "open" THEN [sk EXCEPT !.file_handle = "closed"] ELSE sk

\* the stream is released with the last batch still buffered
CloseSinkWithoutFlush(sk) == HandleClose(sk)

\* lines 525-527: writer.flush(), then self.file_handle.close()
CloseSink(sk) == HandleClose(WriterFlush(sk))

\* lines 518-520: open the stream; the Writer writes the file header
SinkOpen ==
  /\ pc = "sink"
  /\ sink.file_handle = "None"
  /\ sink' = [sink EXCEPT !.file_handle = "open", !.stream = Header]
  /\ UNCHANGED <<file, sync_marker, scanVars, readVars, pc, conv>>

\* lines 522-523: writer.write(value)
SinkWriteRecord ==
  /\ pc = "sink"
  /\ sink.file_handle = "open"
  /\ Len(sink.records) < MaxWrites
  /\ \E value \in SinkVals : sink' = WriterWrite(sink, value)
  /\ UNCHANGED <<file, sync_marker, scanVars, readVars, pc, conv>>

\* lines 525-527: close(writer)
SinkClose ==
  /\ pc = "sink"
  /\ sink.file_handle = "open"
  /\ sink' = CloseSink(sink)
  /\ UNCHANGED <<file, sync_marker, scanVars, readVars, pc, conv>>

NextSink == SinkOpen \/ SinkWriteRecord \/ SinkClose

InitSink ==
  /\ sink = NoSink
  /\ conv = NoConv
  /\ unclaimed = NoCall
  /\ pc = "sink"
  /\ file = <<>>
  /\ sync_marker = <<>>
  /\ f_pos = 0
  /\ data = <<>>
  /\ chunk_start = 0
  /\ scan_start = 0
  /\ scan_result = "pending"
  /\ reads = 0
  /\ written = <<>>
  /\ ranges = <<>>
  /\ ri = 0
  /\ start_offset = 0
  /\ next_block_start = -1
  /\ block = NoBlock
  /\ rec_i = 0
  /\ outs = <<>>
  /\ claims = <<>>
  /\ decoded = <<>>

SpecSink == InitSink /\ [][NextSink]_vars

\* reading a file back: the values of the records of its blocks in order,
\* followed by -1 if a block cannot be decoded
RECURSIVE ReadBack(_, _)
ReadBack(bytes, p) ==
  IF p >= Len(bytes) THEN <<>>
  ELSE LET r == ParseBlock(bytes, p, SyncMarker)
       IN  IF r.ok
           THEN [i \in 1..Len(r.blk.recs) |-> r.blk.recs[i].val]
                  \o ReadBack(bytes, p + r.blk.size)
           ELSE <<-1>>

\* C6: writer flush on close.  Once close has released the stream, the
\* file holds every record written, in write order, whatever the size of
\* the last batch; close never fails.
C6_CloseFlushesAll ==
  /\ sink.file_handle # "error"
  /\ sink.file_handle = "closed" =>
       /\ sink.buffer = <<>>
       /\ SubSeq(sink.stream, 1, Len(Header)) = Header
       /\ ReadBack(sink.stream, Len(Header)) = sink.records

\* C6 witness: closed after more records than one block holds, the last
\* batch smaller than the flush threshold
C6_Witness ==
  /\ sink.file_handle = "closed"
  /\ Len(sink.records) > sync_interval
  /\ Len(sink.records) % sync_interval # 0
  /\ \E i \in 1..Len(sink.records) : sink.records[i] # sink.records[1]

----------------------------------------------------------------------------
(* Schema conversion.  Python values are records tagged by k.              *)
(*   Avro schemas: a type name (str), a union (list), or a dict whose      *)
(*   'type' is a primitive, 'array', 'map', 'record', 'fixed' or 'enum'.   *)
(*   Beam FieldTypes: tagged by the name of the type_info set.            *)
(*   A raised exception is the value Raise(exception).                     *)

Raise(exc) == [k |-> "error", exc |-> exc]
IsErr(x) == x.k = "error"

AnyErr(xs) == \E i \in 1..Len(xs) : IsErr(xs[i])
\* the exception raised first when the elements are evaluated in order
FirstErr(xs) ==
  xs[CHOOSE i \in 1..Len(xs) :
       IsErr(xs[i]) /\ \A j \in 1..(i - 1) : ~IsErr(xs[j])]

Name(n) == [k |-> "name", name |-> n]
Prim(n) == [k |-> "prim", type |-> n]
Union(ms) == [k |-> "union", members |-> ms]
AvroArray(t) == [k |-> "array", items |-> t]
AvroMap(t) == [k |-> "map", values |-> t]
AvroRecord(n, fs) == [k |-> "record", name |-> n, fields |-> fs]
Field(n, t) == [name |-> n, type |-> t]

Atomic(a, nullable) ==
  [k |-> "atomic_type", atomic_type |-> a, nullable |-> nullable]
ArrayType(t) == [k |-> "array_type", element_type |-> t]
IterableType(t) == [k |-> "iterable_type", element_type |-> t]
MapType(kt, vt) == [k |-> "map_type", key_type |-> kt, value_type |-> vt]
Schema(fs, id) == [fields |-> fs, id |-> id]
RowType(schema) == [k |-> "row_type", schema |-> schema]
\* schemas.typing_to_runner_api(Any)
AnyType == [k |-> "logical_type", urn |-> "any"]

AvroPrimitives ==
  {"boolean", "int", "long", "float", "double", "bytes", "string"}

\* lines 530-538
AVRO_PRIMITIVES_TO_BEAM_PRIMITIVES ==
  [p \in AvroPrimitives |->
     CASE p = "boolean" -> "BOOLEAN"
       [] p = "int"     -> "INT32"
       [] p = "long"    -> "INT64"
       [] p = "float"   -> "FLOAT"
       [] p = "double"  -> "DOUBLE"
       [] p = "bytes"   -> "BYTES"
       [] p = "string"  -> "STRING"]

BeamPrimitives ==
  {AVRO_PRIMITIVES_TO_BEAM_PRIMITIVES[p] : p \in AvroPrimitives}

\* lines 540-543
BEAM_PRIMITIVES_TO_AVRO_PRIMITIVES ==
  [b \in BeamPrimitives |->
     CHOOSE p \in AvroPrimitives : AVRO_PRIMITIVES_TO_BEAM_PRIMITIVES[p] = b]

\* lines 556-561: the members in order; a member that is a dict or a list
\* is unhashable, and the test "in AVRO_PRIMITIVES_TO_BEAM_PRIMITIVES"
\* raises TypeError on it
RECURSIVE UnionMembers(_, _)
UnionMembers(ms, i) ==
  IF i > Len(ms) THEN AnyType
  ELSE IF ms[i].k # "name" THEN Raise("TypeError")
  ELSE IF ms[i].name \in AvroPrimitives
       THEN Atomic(AVRO_PRIMITIVES_TO_BEAM_PRIMITIVES[ms[i].name], TRUE)
  ELSE UnionMembers(ms, i + 1)

\* lines 548-562
avro_union_type_to_beam_type(union_type) ==
  IF /\ Len(union_type) = 2
     /\ \E i \in 1..2 : union_type[i].k = "name" /\ union_type[i].name = "null"
  THEN UnionMembers(union_type, 1)
  ELSE AnyType

\* lines 565-596
RECURSIVE avro_type_to_beam_type(_)
avro_type_to_beam_type(avro_type) ==
  IF avro_type.k = "name" THEN avro_type_to_beam_type(Prim(avro_type.name))
  ELSE IF avro_type.k = "union"
       THEN avro_union_type_to_beam_type(avro_type.members)
  ELSE IF avro_type.k = "prim"
       THEN IF avro_type.type \in AvroPrimitives
            THEN Atomic(AVRO_PRIMITIVES_TO_BEAM_PRIMITIVES[avro_type.type],
                        FALSE)
            ELSE IF avro_type.type \in {"fixed", "enum"}
                 THEN Atomic("STRING", FALSE)
                 ELSE Raise("ValueError")
  ELSE IF avro_type.k = "array"
       THEN LET e == avro_type_to_beam_type(avro_type.items)
            IN  IF IsErr(e) THEN e ELSE ArrayType(e)
  ELSE IF avro_type.k = "map"
       THEN LET v == avro_type_to_beam_type(avro_type.values)
            IN  IF IsErr(v) THEN v ELSE MapType(Atomic("STRING", FALSE), v)
  ELSE IF avro_type.k = "record"
       THEN LET ts == [i \in 1..Len(avro_type.fields) |->
                         avro_type_to_beam_type(avro_type.fields[i].type)]
            IN  IF AnyErr(ts) THEN FirstErr(ts)
                ELSE RowType(Schema([i \in 1..Len(ts) |->
                                       Field(avro_type.fields[i].name, ts[i])],
                                    ""))
  ELSE Raise("ValueError")

\* lines 599-605
avro_schema_to_beam_schema(avro_schema) ==
  LET beam_type == avro_type_to_beam_type(avro_schema)
  IN  IF IsErr(beam_type) THEN beam_type
      ELSE IF avro_schema.k = "record" THEN beam_type.schema
      ELSE Schema(<<Field("record", beam_type)>>, "")

\* the atomic type of a FieldType; UNSPECIFIED when another type_info is set
AtomicTypeOf(beam_type) ==
  IF beam_type.k = "atomic_type" THEN beam_type.atomic_type ELSE "UNSPECIFIED"

\* lines 684-720.  The map branch reads beam_type.map_type.element_type
\* (line 709); a MapType has the fields key_type and value_type only, so
\* the attribute access raises AttributeError.
RECURSIVE beam_type_to_avro_type(_)
beam_type_to_avro_type(beam_type) ==
  IF beam_type.k = "atomic_type"
  THEN IF beam_type.atomic_type \notin BeamPrimitives THEN Raise("KeyError")
       ELSE IF beam_type.nullable
            THEN Union(<<Name("null"),
                         Name(BEAM_PRIMITIVES_TO_AVRO_PRIMITIVES[
                                beam_type.atomic_type])>>)
            ELSE Prim(BEAM_PRIMITIVES_TO_AVRO_PRIMITIVES[beam_type.atomic_type])
  ELSE IF beam_type.k \in {"array_type", "iterable_type"}
       THEN LET e == beam_type_to_avro_type(beam_type.element_type)
            IN  IF IsErr(e) THEN e ELSE AvroArray(e)
  ELSE IF beam_type.k = "map_type"
       THEN IF AtomicTypeOf(beam_type.key_type) # "STRING"
            THEN Raise("TypeError")
            ELSE Raise("AttributeError")
  ELSE IF beam_type.k = "row_type"
       THEN LET ts == [i \in 1..Len(beam_type.schema.fields) |->
                         beam_type_to_avro_type(beam_type.schema.fields[i].type)]
            IN  IF AnyErr(ts) THEN FirstErr(ts)
                ELSE AvroRecord(beam_type.schema.id,
                                [i \in 1..Len(ts) |->
                                   Field(beam_type.schema.fields[i].name,
                                         ts[i])])
  ELSE Raise("ValueError")

\* lines 678-681
beam_schema_to_avro_schema(beam_schema) ==
  beam_type_to_avro_type(RowType(beam_schema))

----------------------------------------------------------------------------
(* Value conversion.  Values are tagged by k: int, str, null, dict (a      *)
(* mapping from field names) and row (beam.Row, attributes by name).  The  *)
(* closure a builder returns is the tree of the converters it captured.    *)

IntV(n) == [k |-> "int", n |-> n]
StrV(str) == [k |-> "str", s |-> str]
NullV == [k |-> "null"]
DictV(items) == [k |-> "dict", items |-> items]
RowV(attrs) == [k |-> "row", attrs |-> attrs]
ListV(elems) == [k |-> "list", elems |-> elems]

RECURSIVE Pow2(_)
Pow2(n) == IF n = 0 THEN 1 ELSE 2 * Pow2(n - 1)

LongBits == 2 * IntBits

\* ctypes.c_uint32(value).value and ctypes.c_uint64(value).value: the low
\* bits of the integer read as unsigned; TypeError unless an integer
c_uint(bits, value) ==
  IF value.k # "int" THEN Raise("TypeError")
  ELSE IntV(value.n % Pow2(bits))

\* ctypes.c_int32(value).value and ctypes.c_int64(value).value: the low
\* bits of the integer read as two's complement
c_int(bits, value) ==
  IF value.k # "int" THEN Raise("TypeError")
  ELSE LET u == value.n % Pow2(bits)
       IN  IntV(IF u >= Pow2(bits - 1) THEN u - Pow2(bits) ELSE u)

\* lines 626-638
avro_atomic_value_to_beam_atomic_value(avro_type, value) ==
  IF avro_type = "int" THEN c_uint(IntBits, value)
  ELSE IF avro_type = "long" THEN c_uint(LongBits, value)
  ELSE value

\* a long is read back with the width of an int
beam_atomic_value_to_avro_atomic_value_narrow(avro_type, value) ==
  IF avro_type = "int" THEN c_int(IntBits, value)
  ELSE IF avro_type = "long" THEN c_int(IntBits, value)
  ELSE value

\* lines 735-747
beam_atomic_value_to_avro_atomic_value(avro_type, value) ==
  IF avro_type = "int" THEN c_int(IntBits, value)
  ELSE IF avro_type = "long" THEN c_int(LongBits, value)
  ELSE value

AtomicConv(avro_type) == [k |-> "atomic", avro_type |-> avro_type]
ListConv(c) == [k |-> "list", element_converter |-> c]
MapConv(c) == [k |-> "map", value_converter |-> c]
RowConv(cs) == [k |-> "row", converters |-> cs]
IdentityConv == [k |-> "identity"]

\* the tree of closures built over a FieldType: the construction is the
\* same in both directions (lines 641-675 and 750-784)
RECURSIVE BuildConverter(_)
BuildConverter(beam_type) ==
  IF beam_type.k = "atomic_type"
  THEN IF beam_type.atomic_type \notin BeamPrimitives THEN Raise("KeyError")
       ELSE AtomicConv(BEAM_PRIMITIVES_TO_AVRO_PRIMITIVES[beam_type.atomic_type])
  ELSE IF beam_type.k \in {"array_type", "iterable_type"}
       THEN LET e == BuildConverter(beam_type.element_type)
            IN  IF IsErr(e) THEN e ELSE ListConv(e)
  ELSE IF beam_type.k = "map_type"
       THEN IF AtomicTypeOf(beam_type.key_type) # "STRING"
            THEN Raise("TypeError")
            ELSE LET v == BuildConverter(beam_type.value_type)
                 IN  IF IsErr(v) THEN v ELSE MapConv(v)
  ELSE IF beam_type.k = "row_type"
       THEN LET cs == [i \in 1..Len(beam_type.schema.fields) |->
                         BuildConverter(beam_type.schema.fields[i].type)]
            IN  IF AnyErr(cs) THEN FirstErr(cs)
                ELSE RowConv([i \in 1..Len(cs) |->
                                [name |-> beam_type.schema.fields[i].name,
                                 convert |-> cs[i]]])
  ELSE IF beam_type.k = "logical_type" THEN IdentityConv
  ELSE Raise("ValueError")

\* lines 641-675
avro_value_to_beam_value(beam_type) == BuildConverter(beam_type)

\* lines 750-784
beam_value_to_avro_value(beam_type) == BuildConverter(beam_type)

\* calling a converter built by avro_value_to_beam_value
RECURSIVE CallToBeam(_, _)
CallToBeam(converter, value) ==
  IF converter.k = "atomic"
  THEN avro_atomic_value_to_beam_atomic_value(converter.avro_type, value)
  ELSE IF converter.k = "row"
       THEN IF value.k # "dict" THEN Raise("TypeError")
            ELSE LET cs == converter.converters
                     vs == [i \in 1..Len(cs) |->
                              IF cs[i].name \in DOMAIN value.items
                              THEN CallToBeam(cs[i].convert,
                                              value.items[cs[i].name])
                              ELSE Raise("KeyError")]
                 IN  IF AnyErr(vs) THEN FirstErr(vs)
                     ELSE RowV([n \in {cs[i].name : i \in 1..Len(cs)} |->
                                  vs[CHOOSE i \in 1..Len(cs) : cs[i].name = n]])
  ELSE IF converter.k = "list"
       THEN IF value.k # "list" THEN Raise("TypeError")
            ELSE LET vs == [i \in 1..Len(value.elems) |->
                              CallToBeam(converter.element_converter,
                                         value.elems[i])]
                 IN  IF AnyErr(vs) THEN FirstErr(vs) ELSE ListV(vs)
  ELSE IF converter.k = "map"
       THEN IF value.k # "dict" THEN Raise("AttributeError")
            ELSE LET vs == [n \in DOMAIN value.items |->
                              CallToBeam(converter.value_converter,
                                         value.items[n])]
                 IN  IF \E n \in DOMAIN vs : IsErr(vs[n])
                     THEN vs[CHOOSE n \in DOMAIN vs : IsErr(vs[n])]
                     ELSE DictV(vs)
  ELSE value

\* calling a converter built by beam_value_to_avro_value
RECURSIVE CallToAvro(_, _)
CallToAvro(converter, value) ==
  IF converter.k = "atomic"
  THEN beam_atomic_value_to_avro_atomic_value(converter.avro_type, value)
  ELSE IF converter.k = "row"
       THEN IF value.k # "row" THEN Raise("AttributeError")
            ELSE LET cs == converter.converters
                     vs == [i \in 1..Len(cs) |->
                              IF cs[i].name \in DOMAIN value.attrs
                              THEN CallToAvro(cs[i].convert,
                                              value.attrs[cs[i].name])
                              ELSE Raise("AttributeError")]
                 IN  IF AnyErr(vs) THEN FirstErr(vs)
                     ELSE DictV([n \in {cs[i].name : i \in 1..Len(cs)} |->
                                   vs[CHOOSE i \in 1..Len(cs) : cs[i].name = n]])
  ELSE IF converter.k = "list"
       THEN IF value.k # "list" THEN Raise("TypeError")
            ELSE LET vs == [i \in 1..Len(value.elems) |->
                              CallToAvro(converter.element_converter,
                                         value.elems[i])]
                 IN  IF AnyErr(vs) THEN FirstErr(vs) ELSE ListV(vs)
  ELSE IF converter.k = "map"
       THEN IF value.k # "dict" THEN Raise("AttributeError")
            ELSE LET vs == [n \in DOMAIN value.items |->
                              CallToAvro(converter.value_converter,
                                         value.items[n])]
                 IN  IF \E n \in DOMAIN vs : IsErr(vs[n])
                     THEN vs[CHOOSE n \in DOMAIN vs : IsErr(vs[n])]
                     ELSE DictV(vs)
  ELSE value

----------------------------------------------------------------------------
(* The conversions applied to bounded sets of inputs                       *)

\* the signed integers of a width
Signed(bits) == (0 - Pow2(bits - 1))..(Pow2(bits - 1) - 1)

AtomicInputs ==
  {[kind |-> "atomic", avro_type |-> "int", value |-> IntV(n)] :
     n \in Signed(IntBits)}
  \cup {[kind |-> "atomic", avro_type |-> "long", value |-> IntV(n)] :
          n \in Signed(LongBits)}
  \cup {[kind |-> "atomic", avro_type |-> "string", value |-> StrV(str)] :
          str \in {"", "Alyssa"}}

\* primitives and 2-way nullable unions, in both member orders
AvroLeaves(prims) ==
  {Name(p) : p \in prims} \cup {Prim(p) : p \in prims}
  \cup {Union(<<Name("null"), Name(p)>>) : p \in prims}
  \cup {Union(<<Name(p), Name("null")>>) : p \in prims}

RECURSIVE AvroTypes(_)
AvroTypes(d) ==
  IF d = 0 THEN AvroLeaves({"int", "string"})
  ELSE LET sub == AvroTypes(d - 1)
       IN  sub \cup {AvroArray(t) : t \in sub} \cup {AvroMap(t) : t \in sub}
               \cup {AvroRecord("Inner", <<Field("g", t)>>) : t \in sub}

\* record schemas of one field of any depth, or of two shallow fields
SchemaInputs ==
  {[kind |-> "schema",
    avro_schema |-> AvroRecord("Top", <<Field("a", t)>>)] :
     t \in AvroTypes(MaxDepth)}
  \cup {[kind |-> "schema",
         avro_schema |-> AvroRecord("Top", <<Field("a", t), Field("b", u)>>)] :
          t \in AvroTypes(0), u \in AvroTypes(0)}

BeamLeaves == {Atomic("STRING", FALSE), Atomic("INT32", TRUE), AnyType}

\* key types of a map: atomic STRING, and three that are not
KeyTypes ==
  {Atomic("STRING", FALSE), Atomic("STRING", TRUE), Atomic("INT32", FALSE),
   ArrayType(Atomic("STRING", FALSE))}

RECURSIVE BeamTypes(_)
BeamTypes(d) ==
  IF d = 0 THEN BeamLeaves
  ELSE LET sub == BeamTypes(d - 1)
       IN  sub \cup {ArrayType(t) : t \in sub}
               \cup {IterableType(t) : t \in sub}
               \cup {MapType(kt, t) : kt \in KeyTypes, t \in sub}
               \cup {RowType(Schema(<<Field("g", t)>>, "")) : t \in sub}

BeamTypeInputs ==
  {[kind |-> "beam_type", beam_type |-> t] : t \in BeamTypes(MaxBeamDepth)}
  \cup {[kind |-> "beam_type",
         beam_type |-> RowType(Schema(<<Field("a", t), Field("b", u)>>, ""))] :
          t \in BeamTypes(1), u \in BeamTypes(1)}

\* field types of the records converted: primitives and nullable primitives
RecordFieldTypes == AvroLeaves({"string", "int", "long"})

\* the primitive a field type carries
PrimOf(t) ==
  IF t.k = "union"
  THEN IF t.members[1].name = "null" THEN t.members[2].name
       ELSE t.members[1].name
  ELSE IF t.k = "name" THEN t.name ELSE t.type

\* values of a field type: boundary values, and null if it is nullable
ValuesOf(t) ==
  (IF PrimOf(t) = "string" THEN {StrV("Alyssa")}
   ELSE IF PrimOf(t) = "int"
        THEN {IntV(0 - Pow2(IntBits - 1)), IntV(-1), IntV(Pow2(IntBits - 1) - 1)}
        ELSE {IntV(0 - Pow2(LongBits - 1)), IntV(-1), IntV(Pow2(IntBits))})
  \cup (IF t.k = "union" THEN {NullV} ELSE {})

\* a field type with one of its values
TypedValues == UNION {{<<t, x>> : x \in ValuesOf(t)} : t \in RecordFieldTypes}

RecordInputs ==
  {[kind |-> "record",
    avro_schema |-> AvroRecord("User", <<Field("a", p[1][1]),
                                         Field("b", p[2][1])>>),
    record |-> DictV([n \in {"a", "b"} |->
                        IF n = "a" THEN p[1][2] ELSE p[2][2]])] :
     p \in TypedValues \X TypedValues}

\* members of a union: 'null', primitives, a named type, and the complex
\* types written in place as a dict (array, map, record, {'type': 'int'})
UnionMemberTypes ==
  {Name("null"), Name("int"), Name("string"), Name("Rec"), Prim("int"),
   AvroArray(Name("int")), AvroMap(Name("string")),
   AvroRecord("Rec", <<Field("g", Name("int"))>>)}

UnionInputs ==
  {[kind |-> "union", union_type |-> u] :
     u \in SeqsOf(UnionMemberTypes, 0, MaxUnion)}

ConvInputs ==
  AtomicInputs \cup SchemaInputs \cup BeamTypeInputs \cup RecordInputs
    \cup UnionInputs

convRest == <<file, sync_marker, scanVars, readVars, pc, sink>>

\* an Avro atomic value is converted to its Beam value (line 646)
AtomicToBeam ==
  /\ conv.stage = "input" /\ conv.input.kind = "atomic"
  /\ conv' = [conv EXCEPT
               !.stage = "beam",
               !.beam = avro_atomic_value_to_beam_atomic_value(
                          conv.input.avro_type, conv.input.value)]
  /\ UNCHANGED convRest

\* and the Beam value is converted back (line 755)
AtomicToAvro ==
  /\ conv.stage = "beam" /\ conv.input.kind = "atomic"
  /\ ~IsErr(conv.beam)
  /\ conv' = [conv EXCEPT
               !.stage = "done",
               !.avro = beam_atomic_value_to_avro_atomic_value(
                          conv.input.avro_type, conv.beam)]
  /\ UNCHANGED convRest

\* avro_schema_to_beam_schema(S)
SchemaToBeam ==
  /\ conv.stage = "input" /\ conv.input.kind = "schema"
  /\ conv' = [conv EXCEPT
               !.stage = "beam",
               !.beam = avro_schema_to_beam_schema(conv.input.avro_schema)]
  /\ UNCHANGED convRest

\* beam_schema_to_avro_schema of the result
SchemaToAvro ==
  /\ conv.stage = "beam" /\ conv.input.kind = "schema"
  /\ "k" \notin DOMAIN conv.beam
  /\ conv' = [conv EXCEPT
               !.stage = "done",
               !.avro = beam_schema_to_avro_schema(conv.beam)]
  /\ UNCHANGED convRest

\* beam_type_to_avro_type(T)
TypeToAvro ==
  /\ conv.stage = "input" /\ conv.input.kind = "beam_type"
  /\ conv' = [conv EXCEPT
               !.stage = "typed",
               !.avro = beam_type_to_avro_type(conv.input.beam_type)]
  /\ UNCHANGED convRest

\* avro_value_to_beam_value(T) and beam_value_to_avro_value(T): the
\* converters are built, no value is converted yet
BuildConverters ==
  /\ \/ conv.stage = "typed" /\ conv.input.kind = "beam_type"
        /\ conv' = [conv EXCEPT
                     !.stage = "built",
                     !.to_beam = avro_value_to_beam_value(conv.input.beam_type),
                     !.to_avro = beam_value_to_avro_value(conv.input.beam_type)]
     \/ conv.stage = "input" /\ conv.input.kind = "record"
        /\ LET beam_schema == avro_schema_to_beam_schema(conv.input.avro_schema)
           IN  conv' = [conv EXCEPT
                          !.stage = "built",
                          !.to_beam = avro_value_to_beam_value(RowType(beam_schema)),
                          !.to_avro = beam_value_to_avro_value(RowType(beam_schema))]
  /\ UNCHANGED convRest

\* the converter of avro_dict_to_beam_row is called on a record
RecordToRow ==
  /\ conv.stage = "built" /\ conv.input.kind = "record"
  /\ ~IsErr(conv.to_beam)
  /\ conv' = [conv EXCEPT
               !.stage = "beam",
               !.beam = CallToBeam(conv.to_beam, conv.input.record)]
  /\ UNCHANGED convRest

\* the converter of beam_row_to_avro_dict is called on the row
RowToDict ==
  /\ conv.stage = "beam" /\ conv.input.kind = "record"
  /\ ~IsErr(conv.beam) /\ ~IsErr(conv.to_avro)
  /\ conv' = [conv EXCEPT
               !.stage = "done",
               !.avro = CallToAvro(conv.to_avro, conv.beam)]
  /\ UNCHANGED convRest

\* avro_union_type_to_beam_type(U)
UnionToBeam ==
  /\ conv.stage = "input" /\ conv.input.kind = "union"
  /\ conv' = [conv EXCEPT
               !.stage = "beam",
               !.beam = avro_union_type_to_beam_type(conv.input.union_type)]
  /\ UNCHANGED convRest

NextConv ==
  \/ AtomicToBeam \/ AtomicToAvro \/ SchemaToBeam \/ SchemaToAvro
  \/ TypeToAvro \/ BuildConverters \/ RecordToRow \/ RowToDict
  \/ UnionToBeam

InitConv ==
  /\ \E input \in ConvInputs :
       conv = [stage |-> "input", input |-> input, beam |-> NullV,
               avro |-> NullV, to_beam |-> NullV, to_avro |-> NullV]
  /\ sink = NoSink
  /\ unclaimed = NoCall
  /\ pc = "conv"
  /\ file = <<>>
  /\ sync_marker = <<>>
  /\ f_pos = 0
  /\ data = <<>>
  /\ chunk_start = 0
  /\ scan_start = 0
  /\ scan_result = "pending"
  /\ reads = 0
  /\ written = <<>>
  /\ ranges = <<>>
  /\ ri = 0
  /\ start_offset = 0
  /\ next_block_start = -1
  /\ block = NoBlock
  /\ rec_i = 0
  /\ outs = <<>>
  /\ claims = <<>>
  /\ decoded = <<>>

SpecConv == InitConv /\ [][NextConv]_vars

----------------------------------------------------------------------------
(* Properties of the reader                                                *)

\* the records of the unsplit file, in file order, from the blocks written
RECURSIVE RecordsOf(_, _)
RecordsOf(bs, at) ==
  IF bs = <<>> THEN <<>>
  ELSE [i \in 1..Len(Head(bs)) |-> [off |-> at + 1 + i, val |-> Head(bs)[i]]]
         \o RecordsOf(Tail(bs), at + Len(EncodeBlock(Head(bs))))

RECURSIVE Flatten(_)
Flatten(ss) == IF ss = <<>> THEN <<>> ELSE Head(ss) \o Flatten(Tail(ss))

\* the ranges partition exactly the byte range [0, file size)
IsPartition == ranges # <<>> /\ ranges[Len(ranges)].stop = Len(file)

AllRangesRead == IsPartition /\ ri = Len(ranges) /\ pc = "done"

\* C1: split coverage.  For a well-formed file and a partition of
\* [0, file size) into adjacent ranges, no range ends in an error, and once
\* every range has been read the outputs concatenated in range order are
\* exactly the records of the unsplit file in file order.
C1_SplitCoverage ==
  IsPartition =>
    /\ pc # "error"
    /\ AllRangesRead => Flatten(outs) = RecordsOf(written, Len(Header))

\* C1 witness: two blocks with records and three ranges, cut once inside
\* the first block's sync marker and once exactly at the start of the
\* second block; all ranges read, the first block came out of the first
\* range and the second block out of the range that starts at it
C1_Witness ==
  /\ AllRangesRead
  /\ Len(ranges) = 3
  /\ Len(written) = 2
  /\ \A b \in 1..2 : written[b] # <<>>
  /\ ranges[2].start + 1 \in BlockEnds(written, Len(Header))
  /\ ranges[3].start \in BlockEnds(written, Len(Header))
  /\ outs[1] # <<>>
  /\ outs[2] = <<>>
  /\ outs[3] # <<>>

\* C2: when the marker is found at offset pos of the chunk just read, the
\* scanner returns True with the stream positioned at
\* chunk_start + pos + len(marker), right after that occurrence.
C2_FoundLandsAtMarkerEnd ==
  (pc = "scan_done" /\ scan_result = "True") =>
    /\ Find(data, sync_marker) >= 0
    /\ f_pos = chunk_start + Find(data, sync_marker) + Len(sync_marker)
    /\ SubSeq(file, f_pos - Len(sync_marker) + 1, f_pos) = sync_marker

\* C2 witness: found in a later chunk, not at its start, and ending exactly
\* at the end of the chunk (backward seek of 0)
C2_Witness ==
  /\ pc = "scan_done"
  /\ scan_result = "True"
  /\ chunk_start > scan_start
  /\ Find(data, sync_marker) > 0
  /\ Len(data) = Find(data, sync_marker) + Len(sync_marker)

\* occurrences of the marker that begin at or after the scan's start
OccurrencesAhead == {i \in Occurrences(file, sync_marker) : i >= scan_start}

FirstAhead == CHOOSE i \in OccurrencesAhead : \A j \in OccurrencesAhead : i <= j

\* no chunk is read from beyond the start of the earliest occurrence ahead,
\* and the scan returns only at the end of that occurrence
NeverSkips ==
  OccurrencesAhead # {} =>
    /\ pc = "scan_loop" => chunk_start <= FirstAhead
    /\ pc = "scan_done" =>
         scan_result = "True" /\ f_pos = FirstAhead + Len(sync_marker)

\* C3 as stated: for any buffer size and marker length, the scan never
\* skips a complete occurrence of the marker.
C3_NeverSkipsAnyBuffer ==
  pc \in {"scan_loop", "scan_done"} => NeverSkips

\* C3 amended: when the buffer is at least as long as the marker, the scan
\* never skips a complete occurrence of the marker: it stops, and only at
\* the end of the earliest occurrence at or after its starting position.
C3_NeverSkipsWhenBufferFits ==
  /\ [](pc \in {"scan_loop", "scan_done"} /\ buf_size >= Len(sync_marker)
          => NeverSkips)
  /\ (pc = "scan_loop" /\ buf_size >= Len(sync_marker)
        /\ OccurrencesAhead # {})
       ~> (pc = "scan_done" /\ scan_result = "True"
             /\ f_pos = FirstAhead + Len(sync_marker))

\* C3 witness: the earliest occurrence straddles the first two chunk reads
C3_Witness ==
  /\ pc = "scan_done"
  /\ scan_result = "True"
  /\ Len(sync_marker) > 1
  /\ buf_size >= Len(sync_marker)
  /\ FirstAhead < scan_start + buf_size
  /\ FirstAhead + Len(sync_marker) > scan_start + buf_size

\* C4: the scan terminates on every finite stream; when no occurrence of
\* the marker begins at or after the starting position it returns None.
C4_Terminates ==
  /\ <>(pc = "scan_done")
  /\ (pc = "scan" /\ {i \in Occurrences(file, sync_marker) : i >= f_pos} = {})
       => <>(pc = "scan_done" /\ scan_result = "None")

\* the offsets at which a block of the file starts
BlockStarts ==
  ({Len(Header)} \cup BlockEnds(written, Len(Header))) \ {Len(file)}

AcceptedCount(cs) == Cardinality({k \in 1..Len(cs) : cs[k].accepted})

Rejected(i) == claims[i] # <<>> /\ ~claims[i][Len(claims[i])].accepted

\* C5: the claim protocol.  A block is decoded only after its starting
\* offset was claimed and accepted, with one claim per block; records come
\* from decoded blocks only; a rejected claim is the last event of the
\* call: no claim, block or record follows it and the call ends normally.
C5_ClaimProtocol ==
  /\ [](LET starts == BlockStarts
        IN  \A i \in 1..Len(claims) :
          LET cs == claims[i]
              ds == decoded[i]
              accepted == AcceptedCount(cs)
          IN  /\ \A k \in 1..Len(cs) : ~cs[k].accepted => k = Len(cs)
              /\ \A k \in 1..Len(cs) : \A l \in 1..Len(cs) :
                   k < l => cs[k].pos < cs[l].pos
              /\ \A k \in 1..Len(cs) :
                   cs[k].pos < Len(file) => cs[k].pos \in starts
              /\ Len(ds) = IF i = ri /\ pc = "next"
                           THEN accepted - 1 ELSE accepted
              /\ \A k \in 1..Len(ds) :
                   /\ cs[k].accepted
                   /\ \/ ds[k] = cs[k].pos
                      \/ ds[k] = -1 /\ k = Len(ds) /\ cs[k].pos >= Len(file)
              /\ \A r \in 1..Len(outs[i]) : \E k \in 1..Len(ds) :
                   /\ ds[k] >= 0
                   /\ LET recs == ParseBlock(file, ds[k], SyncMarker).blk.recs
                      IN  \E n \in 1..Len(recs) : recs[n] = outs[i][r]
              /\ (i = ri /\ Rejected(i)) => pc = "done")
  /\ [][\A i \in 1..Len(claims) :
          Rejected(i) => /\ claims'[i] = claims[i]
                         /\ decoded'[i] = decoded[i]
                         /\ outs'[i] = outs[i]]_vars

\* C5 witness: a range that decoded a block, yielded its record and then
\* had the claim of the next block rejected, while a later range is read
C5_Witness ==
  /\ ri = 2
  /\ Rejected(1)
  /\ Len(claims[1]) >= 2
  /\ outs[1] # <<>>
  /\ claims[1][Len(claims[1])].pos \in BlockStarts
  /\ pc = "yield"

\* C12: claimed offsets are strictly increasing and aligned.  Within one
\* read_records call the positions passed to try_claim are strictly
\* increasing, each accepted position is the offset of the block decoded
\* next, and after a block is decoded the next position proposed is
\* block.offset + block.size, the byte just past its sync marker.
C12_ClaimsIncreasingAligned ==
  /\ \A i \in 1..Len(claims) :
       LET cs == claims[i]
           ds == decoded[i]
       IN  /\ \A k \in 1..(Len(cs) - 1) : cs[k].pos < cs[k + 1].pos
           /\ \A k \in 1..Len(ds) : cs[k].accepted /\ ds[k] = cs[k].pos
           /\ \A k \in 2..Len(cs) :
                ds[k - 1] >= 0 =>
                  cs[k].pos = ds[k - 1]
                    + ParseBlock(file, ds[k - 1], SyncMarker).blk.size
  /\ (pc \in {"yield", "claim"} /\ block # NoBlock) =>
       next_block_start = block.offset + block.size

\* C13: end of file ends iteration normally.  When read_records has
\* consumed the last complete block, so that the stream is at end of file
\* right after a sync marker, or when the initial alignment found no marker
\* before end of file, the call ends without raising, for every range
\* tracker, also one whose stop position lies beyond the end of the file
\* and so accepts the claim of the end-of-file position.
C13_EndOfFileEndsNormally ==
  (f_pos >= Len(file) \/ scan_result = "None") => pc # "error"

\* the smallest block start at or after s, the end of the file if none
FirstBlockFrom(s) ==
  LET later == {b \in BlockStarts \cup {Len(file)} : b >= s}
  IN  CHOOSE b \in later : \A c \in later : b <= c

\* C14: start alignment.  For a well-formed file and a range whose start s
\* is in [0, file size], read_records seeks to max(0, s - len(marker)), the
\* scan from there finds a marker, and the first position proposed to
\* try_claim is the smallest block start >= s (the end of the file if there
\* is none): a block that begins exactly at s is claimed by this range, and
\* no position before s is ever proposed by it.
C14_StartAlignment ==
  /\ \A i \in 1..Len(claims) :
       ranges[i].start <= Len(file) =>
         /\ claims[i] # <<>> =>
              claims[i][1].pos = FirstBlockFrom(ranges[i].start)
         /\ \A k \in 1..Len(claims[i]) : claims[i][k].pos >= ranges[i].start
  /\ (ri \in 1..Len(ranges) /\ ranges[ri].start <= Len(file)) =>
       LET seek_to == Max(0, ranges[ri].start - Len(SyncMarker))
       IN  /\ pc = "scan" => f_pos = seek_to
           /\ pc \in {"scan_loop", "scan_done"} => scan_start = seek_to
           /\ pc = "scan_done" => scan_result = "True"
           /\ pc = "claim" /\ claims[ri] = <<>> =>
                next_block_start = FirstBlockFrom(ranges[ri].start)

\* C14 witness: the second range starts exactly at a block start; the first
\* range proposed that offset and was refused, the second range proposed it
\* first, was accepted and is yielding the records of that block
C14_Witness ==
  /\ ri = 2
  /\ pc = "yield"
  /\ ranges[2].start \in BlockStarts
  /\ ranges[2].start > Len(Header)
  /\ Rejected(1)
  /\ claims[1][Len(claims[1])].pos = ranges[2].start
  /\ claims[2] = <<[pos |-> ranges[2].start, accepted |-> TRUE]>>
  /\ block.offset = ranges[2].start

\* the next block boundary read_records knows at this point of the call:
\* none before line 353, then the position the alignment stopped at, then
\* the end of the block last returned by next(blocks)
KnownBoundary ==
  IF pc \in {"open", "seek", "scan", "scan_loop", "scan_done"} THEN -1
  ELSE IF block # NoBlock THEN block.offset + block.size
  ELSE f_pos

ExpectedUnclaimed(stop_position) ==
  IF KnownBoundary >= stop_position THEN 0 ELSE SPLIT_POINTS_UNKNOWN

\* C15: progress reporting.  At every point of a read_records run the
\* callback returns 0 for a stop position exactly when the next block
\* boundary known at that point is >= the stop position, and
\* SPLIT_POINTS_UNKNOWN otherwise: before the first alignment the boundary
\* is -1 and every non-negative stop position gets unknown, and while the
\* records of a block are yielded the boundary is the end of that block,
\* not its start.  Every call the tracker makes returns that value.
C15_ProgressReporting ==
  /\ [](\A p \in StopPositions :
          /\ split_points_unclaimed(p) = ExpectedUnclaimed(p)
          /\ (pc \in {"seek", "scan", "scan_loop", "scan_done"} /\ p >= 0)
               => split_points_unclaimed(p) = SPLIT_POINTS_UNKNOWN
          /\ pc = "yield" =>
               (split_points_unclaimed(p) = 0
                  <=> block.offset + block.size >= p))
  /\ [][unclaimed' # unclaimed =>
          unclaimed'.result = ExpectedUnclaimed(unclaimed'.stop_position)]_vars

\* C15 witness: while the records of a block are yielded the tracker asked
\* about a stop position inside that block, after its start, and got 0
C15_Witness ==
  /\ pc = "yield"
  /\ unclaimed.called
  /\ unclaimed.result = 0
  /\ unclaimed.stop_position > block.offset
  /\ unclaimed.stop_position < block.offset + block.size

----------------------------------------------------------------------------
(* Properties of the conversions                                           *)

\* C7: integer round trip.  For every signed x of the width of an int or
\* of a long, the Beam value is the unsigned number in [0, 2^w) with the
\* same bit pattern, and converting it back gives x.
C7_IntegerRoundTrip ==
  (/\ conv.stage \in {"beam", "done"}
   /\ conv.input.kind = "atomic"
   /\ conv.input.avro_type \in {"int", "long"}) =>
    LET w == IF conv.input.avro_type = "int" THEN IntBits ELSE LongBits
        x == conv.input.value.n
    IN  /\ conv.beam.k = "int"
        /\ conv.beam.n \in 0..(Pow2(w) - 1)
        /\ conv.beam.n = IF x >= 0 THEN x ELSE x + Pow2(w)
        /\ conv.stage = "done" => conv.avro.k = "int" /\ conv.avro.n = x

\* C7 witness: the minimum long went to Beam and came back
C7_Witness ==
  /\ conv.stage = "done"
  /\ conv.input.kind = "atomic"
  /\ conv.input.avro_type = "long"
  /\ conv.input.value.n = 0 - Pow2(LongBits - 1)
  /\ conv.beam.n = Pow2(LongBits - 1)

\* an Avro schema up to the spelling of a primitive ('int' or
\* {'type': 'int'}), the order of the members of a nullable union and the
\* names of records
RECURSIVE Shape(_)
Shape(t) ==
  IF t.k \in {"name", "prim"}
  THEN [k |-> "prim", type |-> IF t.k = "name" THEN t.name ELSE t.type]
  ELSE IF t.k = "union"
       THEN IF /\ Len(t.members) = 2
               /\ \E i \in 1..2 : t.members[i].k = "name"
                                  /\ t.members[i].name = "null"
            THEN LET i == CHOOSE i \in 1..2 :
                            t.members[i].k = "name" /\ t.members[i].name = "null"
                 IN  [k |-> "nullable", of |-> Shape(t.members[3 - i])]
            ELSE [k |-> "union",
                  members |-> [i \in 1..Len(t.members) |-> Shape(t.members[i])]]
  ELSE IF t.k = "array" THEN [k |-> "array", items |-> Shape(t.items)]
  ELSE IF t.k = "map" THEN [k |-> "map", values |-> Shape(t.values)]
  ELSE IF t.k = "record"
       THEN [k |-> "record",
             fields |-> [i \in 1..Len(t.fields) |->
                           Field(t.fields[i].name, Shape(t.fields[i].type))]]
  ELSE t

\* C8: schema round trip.  For a record schema of primitives, nested
\* records, arrays, maps and 2-way nullable unions, both conversions
\* complete without error and the result has the shape of the schema.
C8_SchemaRoundTrip ==
  conv.stage # "none" /\ conv.input.kind = "schema" =>
    /\ conv.stage = "beam" => "k" \notin DOMAIN conv.beam
    /\ conv.stage = "done" =>
         /\ ~IsErr(conv.avro)
         /\ Shape(conv.avro) = Shape(conv.input.avro_schema)

\* C9: record round trip.  For a record of primitive and nullable
\* primitive fields the converters are built, the row has one value per
\* declared field, and converting the row back gives the input dict, null
\* in a nullable field included.
C9_RecordRoundTrip ==
  conv.stage # "none" /\ conv.input.kind = "record" =>
    /\ conv.stage = "built" => ~IsErr(conv.to_beam) /\ ~IsErr(conv.to_avro)
    /\ conv.stage = "beam" =>
         /\ conv.beam.k = "row"
         /\ DOMAIN conv.beam.attrs =
              {conv.input.avro_schema.fields[i].name :
                 i \in 1..Len(conv.input.avro_schema.fields)}
    /\ conv.stage = "done" => conv.avro = conv.input.record

\* a map whose key type is not atomic STRING, at any depth
RECURSIVE HasNonStringKey(_)
HasNonStringKey(t) ==
  IF t.k \in {"array_type", "iterable_type"}
  THEN HasNonStringKey(t.element_type)
  ELSE IF t.k = "map_type"
       THEN AtomicTypeOf(t.key_type) # "STRING" \/ HasNonStringKey(t.value_type)
  ELSE IF t.k = "row_type"
       THEN \E i \in 1..Len(t.schema.fields) :
              HasNonStringKey(t.schema.fields[i].type)
  ELSE FALSE

\* a type with no Avro counterpart (a logical type), at any depth
RECURSIVE HasLogicalType(_)
HasLogicalType(t) ==
  IF t.k \in {"array_type", "iterable_type"}
  THEN HasLogicalType(t.element_type)
  ELSE IF t.k = "map_type"
       THEN HasLogicalType(t.key_type) \/ HasLogicalType(t.value_type)
  ELSE IF t.k = "row_type"
       THEN \E i \in 1..Len(t.schema.fields) :
              HasLogicalType(t.schema.fields[i].type)
  ELSE t.k = "logical_type"

RaisedTypeError(x) == IsErr(x) /\ x.exc = "TypeError"

\* C10: non-string map keys.  For a row type of atomic, array, iterable,
\* map and row types that contains a map whose key is not atomic STRING,
\* beam_type_to_avro_type raises TypeError and both converter builders
\* raise TypeError when the converter is built; without such a map none of
\* them raises TypeError.
C10_NonStringKeyRejected ==
  (/\ conv.stage \in {"typed", "built"}
   /\ conv.input.kind = "beam_type"
   /\ conv.input.beam_type.k = "row_type"
   /\ ~HasLogicalType(conv.input.beam_type)) =>
    /\ RaisedTypeError(conv.avro) <=> HasNonStringKey(conv.input.beam_type)
    /\ conv.stage = "built" =>
         /\ RaisedTypeError(conv.to_beam) <=>
              HasNonStringKey(conv.input.beam_type)
         /\ RaisedTypeError(conv.to_avro) <=>
              HasNonStringKey(conv.input.beam_type)

\* a union of exactly two members, one 'null' and the other a primitive
\* that has a Beam primitive
IsNullablePrimitive(u) ==
  /\ Len(u) = 2
  /\ \E i \in 1..2 :
       /\ u[i] = Name("null")
       /\ u[3 - i].k = "name"
       /\ u[3 - i].name \in AvroPrimitives

PrimitiveOf(u) == IF u[1] = Name("null") THEN u[2].name ELSE u[1].name

\* C11: union mapping.  avro_union_type_to_beam_type returns the nullable
\* atomic type of kind K exactly when the union has two members, one of
\* them 'null' and the other a primitive mapped to K; for every other
\* union (more or fewer members, no 'null', or a non-null member without a
\* primitive mapping, such as a record, array or map) it returns the
\* opaque 'any' logical type and does not raise, in either member order.
C11_UnionMapping ==
  (conv.stage = "beam" /\ conv.input.kind = "union") =>
    LET u == conv.input.union_type
    IN  IF IsNullablePrimitive(u)
        THEN conv.beam =
               Atomic(AVRO_PRIMITIVES_TO_BEAM_PRIMITIVES[PrimitiveOf(u)], TRUE)
        ELSE conv.beam = AnyType

====
